---- MODULE Spec2Model ----
(***************************************************************************)
(* A model of the data-collection pipeline: the Task Assembler             *)
(* (src/assemble_master.py) and the offline PDF Finalizer                  *)
(* (src/finalize_pdfs_offline.py).                                         *)
(*                                                                         *)
(* Strings that the code only compares for equality are TLA+ strings.     *)
(* Strings that the code orders (sort_values, groupby, list.sort) are      *)
(* ordered by StrRank, their position in ASCII order.  A filing date       *)
(* "YYYY-MM-DD" is the tuple <<YYYY, MM, DD>>; "" is <<>>.                 *)
(***************************************************************************)
EXTENDS Integers, Sequences, FiniteSets, TLC

VARIABLES
    \* ---- Task Assembler (assemble_master.py) ----
    apc,            \* position of assemble(): "start" or "written"
    ab,             \* manifest_ab.csv as read
    two,            \* manifest_two.csv as read
    a_count, b_count, c_yoy_count, c_peer_count,
    master          \* tasks_master.csv as written (<<>> until written)

avars == <<apc, ab, two, a_count, b_count, c_yoy_count, c_peer_count, master>>

VARIABLES
    \* ---- PDF Finalizer (finalize_pdfs_offline.py, main) ----
    fpc,            \* position of main(): "idle", "start", "loop", "done"
    csv_in,         \* the tasks CSV file given on the command line
    only_missing,   \* --only-missing
    overwrite,      \* --overwrite
    df,             \* the table in memory
    idx_row,        \* the row the loop is at (1-based)
    doc_idx,        \* the slot the loop is at
    row,            \* the copy of the row that iterrows() handed to the loop body
    html_cache,     \* the names of the files in html_cache/
    failed_rows,    \* the lines this run appended to failed_rows.csv
    out_csv,        \* the *_finalized_offline.csv file (<<>> until written)
    visits,         \* history: the (row, slot, outcome) of every slot handled
    fetched,        \* history: the (row, slot) for which a download was made
    rendered        \* history: the (row, slot) for which a render was made

fvars == <<fpc, csv_in, only_missing, overwrite, df, idx_row, doc_idx, row,
           html_cache, failed_rows, out_csv, visits, fetched, rendered>>

VARIABLES
    \* ---- _download_html_with_retries ----
    dpc,                \* "idle", "fetch", "sleep", "returned"
    max_fetch_retries,
    attempt,            \* the loop variable
    path_file,          \* the cache file at `path`: "absent", "stale" (there before the call), "fresh"
    ok,                 \* the value returned (meaningful once returned)
    dl_trace            \* history: the fetches and sleeps made, in order

dvars == <<dpc, max_fetch_retries, attempt, path_file, ok, dl_trace>>

VARIABLES
    \* ---- _determine_filename ----
    npc,            \* "idle", "start", "returned"
    name_row,       \* the row handed to _determine_filename
    name_idx,       \* the slot
    name_out        \* the filename returned (<<>> until returned)

nvars == <<npc, name_row, name_idx, name_out>>

VARIABLES
    \* ---- Manifest Builder (build_manifest_dual_public.py, build_dual) ----
    bpc,            \* "idle", "row" (top of the loop body), "fetch", "finally", "written"
    input_df,       \* the companies of the input CSV, in order
    ticker_map,     \* the tickers that company_tickers.json maps to a CIK
    pos,            \* the company the loop is at (1-based)
    errors,         \* the lines collected for manifest_errors.log
    ab_rows,        \* the rows collected for manifest_ab.csv
    two_rows,       \* the rows collected for manifest_two.csv
    b_trace         \* history: the companies handled and the delays made, in order

bvars == <<bpc, input_df, ticker_map, pos, errors, ab_rows, two_rows, b_trace>>

vars == <<avars, fvars, dvars, nvars, bvars>>

\* a program that is not the one a specification runs
AsmIdle ==
    /\ apc = "idle" /\ ab = <<>> /\ two = <<>> /\ master = <<>>
    /\ a_count = 0 /\ b_count = 0 /\ c_yoy_count = 0 /\ c_peer_count = 0

FinIdle ==
    /\ fpc = "idle" /\ csv_in = <<>> /\ only_missing = FALSE /\ overwrite = FALSE
    /\ df = <<>> /\ idx_row = 0 /\ doc_idx = 0 /\ row = <<>> /\ html_cache = {}
    /\ failed_rows = <<>> /\ out_csv = <<>> /\ visits = <<>>
    /\ fetched = {} /\ rendered = {}

NameIdle ==
    /\ npc = "idle" /\ name_row = <<>> /\ name_idx = 0 /\ name_out = <<>>

BuildIdle ==
    /\ bpc = "idle" /\ input_df = <<>> /\ ticker_map = {} /\ pos = 0
    /\ errors = <<>> /\ ab_rows = <<>> /\ two_rows = <<>> /\ b_trace = <<>>

DlIdle ==
    /\ dpc = "idle" /\ max_fetch_retries = 0 /\ attempt = 0
    /\ path_file = "absent" /\ ok = FALSE /\ dl_trace = <<>>

-----------------------------------------------------------------------------
(* Bounds of the model *)

\* longest AB manifest
MaxAB == 3
\* longest TWO manifest
MaxTwo == 3
\* largest requested count per category
MaxCount == 2

-----------------------------------------------------------------------------
(* Generic helpers *)

Range(s) == {s[i] : i \in 1..Len(s)}

Min(a, b) == IF a <= b THEN a ELSE b
Max(a, b) == IF a >= b THEN a ELSE b

\* Python's s[:k] for k >= 0
Take(s, k) == SubSeq(s, 1, Min(k, Len(s)))

RECURSIVE Concat(_)
Concat(ss) == IF ss = <<>> THEN <<>> ELSE Head(ss) \o Concat(Tail(ss))

\* the subsequence of the elements satisfying Test, in order (a boolean mask)
FilterSeq(s, Test(_)) == SelectSeq(s, Test)

\* ASCII order of the strings the code sorts
StrOrder == <<"", "ACM", "ACMX", "Acme", "BLT", "Bolt", "COR", "Core", "Energy", "Tech">>
StrRank(x) == CHOOSE i \in 1..Len(StrOrder) : StrOrder[i] = x

\* lexicographic order of equal-length integer tuples
RECURSIVE LexLess(_, _)
LexLess(x, y) ==
    IF x = <<>> THEN FALSE
    ELSE IF Head(x) # Head(y) THEN Head(x) < Head(y)
    ELSE LexLess(Tail(x), Tail(y))

\* a date string compares like the number YYYYMMDD
DateKey(d) == IF d = <<>> THEN 0 ELSE d[1] * 10000 + d[2] * 100 + d[3]

\* .str[:4] of a date string: its year part
Year(d) == SubSeq(d, 1, Min(1, Len(d)))
YearKey(d) == IF d = <<>> THEN 0 ELSE d[1]

\* A stable sort of s by key[x], an integer tuple per element (ascending).
RECURSIVE InsertByKey(_, _, _)
InsertByKey(x, s, key) ==
    IF s = <<>> THEN <<x>>
    ELSE IF LexLess(key[x], key[Head(s)]) THEN <<x>> \o s
    ELSE <<Head(s)>> \o InsertByKey(x, Tail(s), key)

RECURSIVE SortByKey(_, _)
SortByKey(s, key) ==
    IF s = <<>> THEN <<>>
    ELSE InsertByKey(s[Len(s)], SortByKey(SubSeq(s, 1, Len(s) - 1), key), key)

\* the elements of a finite set of integer tuples in ascending order
RECURSIVE SetToSortedSeq(_)
SetToSortedSeq(S) ==
    IF S = {} THEN <<>>
    ELSE LET m == CHOOSE x \in S : \A y \in S \ {x} : LexLess(x, y)
         IN <<m>> \o SetToSortedSeq(S \ {m})

-----------------------------------------------------------------------------
(* Task Assembler: rows *)

\* f"{i:02d}": the decimal digits of i, zero-padded to width 2
RECURSIVE Digits(_)
Digits(i) == IF i < 10 THEN <<i>> ELSE Digits(i \div 10) \o <<i % 10>>
Fmt02(i) == IF i < 10 THEN <<0>> \o Digits(i) ELSE Digits(i)

\* f"{prefix}_{i:02d}"
TaskIdOf(prefix, i) == <<prefix>> \o Fmt02(i)

\* a FilingRecord of a manifest; the fields the model does not vary are
\* functions of the ones it does
Rec(c, t, s, d) ==
    [Company |-> c, Ticker |-> t, Sector |-> s, Form |-> "10-K",
     Period |-> <<d[1], 12, 31>>, FilingDate |-> d,
     Accession |-> <<t, d>>, OpenAsHTMLURL |-> <<"https", t, d>>]

\* variant: the single-slot row also copies the record into slot 2
make_row_single_FillsSlot2(task_id, cat, r) ==
    [TaskID |-> task_id, Status |-> "", Category |-> cat, Notes |-> "",
     Company_1 |-> r.Company, Ticker_1 |-> r.Ticker, Sector_1 |-> r.Sector,
     Form_1 |-> r.Form, Period_1 |-> r.Period, FilingDate_1 |-> r.FilingDate,
     Company_2 |-> r.Company, Ticker_2 |-> r.Ticker, Sector_2 |-> r.Sector,
     Form_2 |-> r.Form, Period_2 |-> r.Period, FilingDate_2 |-> r.FilingDate,
     Accession_1 |-> r.Accession, OpenAsHTMLURL_1 |-> r.OpenAsHTMLURL,
     PDF_filename_1 |-> "", PDF_checksum_1 |-> "",
     Accession_2 |-> r.Accession, OpenAsHTMLURL_2 |-> r.OpenAsHTMLURL,
     PDF_filename_2 |-> "", PDF_checksum_2 |-> ""]

make_row_single(task_id, cat, r) ==
    [TaskID |-> task_id, Status |-> "", Category |-> cat, Notes |-> "",
     Company_1 |-> r.Company, Ticker_1 |-> r.Ticker, Sector_1 |-> r.Sector,
     Form_1 |-> r.Form, Period_1 |-> r.Period, FilingDate_1 |-> r.FilingDate,
     Company_2 |-> "", Ticker_2 |-> "", Sector_2 |-> "",
     Form_2 |-> "", Period_2 |-> <<>>, FilingDate_2 |-> <<>>,
     Accession_1 |-> r.Accession, OpenAsHTMLURL_1 |-> r.OpenAsHTMLURL,
     PDF_filename_1 |-> "", PDF_checksum_1 |-> "",
     Accession_2 |-> <<>>, OpenAsHTMLURL_2 |-> <<>>,
     PDF_filename_2 |-> "", PDF_checksum_2 |-> ""]

make_row_pair(task_id, cat_label, r1, r2) ==
    [TaskID |-> task_id, Status |-> "", Category |-> cat_label, Notes |-> "",
     Company_1 |-> r1.Company, Ticker_1 |-> r1.Ticker, Sector_1 |-> r1.Sector,
     Form_1 |-> r1.Form, Period_1 |-> r1.Period, FilingDate_1 |-> r1.FilingDate,
     Company_2 |-> r2.Company, Ticker_2 |-> r2.Ticker, Sector_2 |-> r2.Sector,
     Form_2 |-> r2.Form, Period_2 |-> r2.Period, FilingDate_2 |-> r2.FilingDate,
     Accession_1 |-> r1.Accession, OpenAsHTMLURL_1 |-> r1.OpenAsHTMLURL,
     PDF_filename_1 |-> "", PDF_checksum_1 |-> "",
     Accession_2 |-> r2.Accession, OpenAsHTMLURL_2 |-> r2.OpenAsHTMLURL,
     PDF_filename_2 |-> "", PDF_checksum_2 |-> ""]

-----------------------------------------------------------------------------
(* Task Assembler: pick_yoy *)

\* sort keys, as integer tuples
KeyOf(S, f(_)) == [r \in S |-> f(r)]
GroupKey3(r) == <<StrRank(r.Company), StrRank(r.Ticker), StrRank(r.Sector)>>
DateDescKey(r) == <<0 - DateKey(r.FilingDate)>>

\* variant: the partner is the second most recent filing, whatever its year
YoyOfGroup_SecondRow(grp) ==
    LET years == {Year(r.FilingDate) : r \in Range(grp)}
        sorted == SortByKey(grp, KeyOf(Range(grp), DateDescKey))
    IN IF Cardinality(years) < 2 THEN <<>>
       ELSE <<[sector |-> sorted[1].Sector, company |-> sorted[1].Company,
               r1 |-> sorted[1], r2 |-> sorted[2]]>>

\* one (Company, Ticker, Sector) group of pick_yoy: <<>> when the group is
\* dropped, else <<[sector, company, r1, r2]>>
YoyOfGroup(grp) ==
    LET years == {Year(r.FilingDate) : r \in Range(grp)}
        sorted == SortByKey(grp, KeyOf(Range(grp), DateDescKey))
        r1 == sorted[1]
        SameYearNot(r) == Year(r.FilingDate) # Year(r1.FilingDate)
        r2_candidates == FilterSeq(sorted, SameYearNot)
    IN IF Cardinality(years) < 2 THEN <<>>
       ELSE IF r2_candidates = <<>> THEN <<>>
       ELSE <<[sector |-> r1.Sector, company |-> r1.Company,
               r1 |-> r1, r2 |-> r2_candidates[1]]>>

\* the list `out` of pick_yoy after out.sort: groupby visits the keys in
\* ascending order, list.sort is stable
YoyCandidates(two_df) ==
    LET keys == SetToSortedSeq({GroupKey3(r) : r \in Range(two_df)})
        GroupAt(i) == LET InGroup(r) == GroupKey3(r) = keys[i]
                      IN FilterSeq(two_df, InGroup)
        out == Concat([i \in 1..Len(keys) |-> YoyOfGroup(GroupAt(i))])
        OutKey(x) == <<StrRank(x.sector), StrRank(x.company)>>
    IN SortByKey(out, KeyOf(Range(out), OutKey))

pick_yoy(two_df, k) ==
    LET out == Take(YoyCandidates(two_df), k)
    IN [i \in 1..Len(out) |->
            make_row_pair(TaskIdOf("C_YOY", i), "C (YoY)", out[i].r1, out[i].r2)]

-----------------------------------------------------------------------------
(* Task Assembler: pick_peers *)

SectorKey(r) == <<StrRank(r.Sector)>>
CompanyKey(r) == <<StrRank(r.Company)>>
YearCompanyKey(r) == <<YearKey(r.FilingDate), StrRank(r.Company)>>

\* for i in range(0, len(rows)-1, 2): (rows[i], rows[i+1])
PairsOf(rows) ==
    [j \in 1..(Len(rows) \div 2) |->
        make_row_pair(<<"PENDING">>, "C (Peer)", rows[2*j - 1], rows[2*j])]

\* the rows of one sector, in the frame's order
SectorGroups(frame) ==
    LET keys == SetToSortedSeq({SectorKey(r) : r \in Range(frame)})
        GroupAt(i) == LET InGroup(r) == SectorKey(r) = keys[i]
                      IN FilterSeq(frame, InGroup)
    IN [i \in 1..Len(keys) |-> GroupAt(i)]

\* Stage 1: the pairs of one sector, year by year, each year sorted by Company
Stage1OfSector(g) ==
    LET years == SetToSortedSeq({<<YearKey(r.FilingDate)>> : r \in Range(g)})
        YearAt(i) == LET InYear(r) == <<YearKey(r.FilingDate)>> = years[i]
                     IN FilterSeq(g, InYear)
    IN Concat([i \in 1..Len(years) |->
          PairsOf(SortByKey(YearAt(i), KeyOf(Range(YearAt(i)), CompanyKey)))])

Stage1Pairs(frame) ==
    LET gs == SectorGroups(frame)
    IN Concat([i \in 1..Len(gs) |-> Stage1OfSector(gs[i])])

\* Stage 2: the pairs of each sector sorted by (Year, Company)
Stage2Pairs(frame) ==
    LET gs == SectorGroups(frame)
    IN Concat([i \in 1..Len(gs) |->
          PairsOf(SortByKey(gs[i], KeyOf(Range(gs[i]), YearCompanyKey)))])

\* out.append(pair); if len(out) >= k: return -- over the pairs of a stage
RECURSIVE AppendUntil(_, _, _)
AppendUntil(out, pairs, k) ==
    IF pairs = <<>> THEN [out |-> out, returned |-> FALSE]
    ELSE LET o == Append(out, Head(pairs))
         IN IF Len(o) >= k THEN [out |-> o, returned |-> TRUE]
            ELSE AppendUntil(o, Tail(pairs), k)

\* for j, row in enumerate(out, start=1): row["TaskID"] = f"C_PEER_{j:02d}"
NumberPeers(out) ==
    [j \in 1..Len(out) |-> [out[j] EXCEPT !.TaskID = TaskIdOf("C_PEER", j)]]

\* df[~df.apply(lambda r: (r["Company"], r["Ticker"]) in used_companies)]
NotUsed(ab_df, used) ==
    LET Free(r) == <<r.Company, r.Ticker>> \notin used
    IN FilterSeq(ab_df, Free)

pick_peers(ab_df, k, used) ==
    LET frame == NotUsed(ab_df, used)
        s1 == AppendUntil(<<>>, Stage1Pairs(frame), k)
        s2 == AppendUntil(s1.out, Stage2Pairs(frame), k)
    IN IF s1.returned THEN NumberPeers(s1.out)
       ELSE IF Len(s1.out) < k
            THEN IF s2.returned THEN NumberPeers(s2.out)
                 ELSE Take(NumberPeers(s2.out), k)
            ELSE Take(NumberPeers(s1.out), k)

-----------------------------------------------------------------------------
(* Task Assembler: assemble *)

\* ab.sort_values(["Sector","Company","FilingDate"], ascending=[True, True, False])
\* variant: FilingDate ascending
ABSortKey_DateAscending(r) == <<StrRank(r.Sector), StrRank(r.Company), DateKey(r.FilingDate)>>

ABSortKey(r) == <<StrRank(r.Sector), StrRank(r.Company), 0 - DateKey(r.FilingDate)>>
SortAB(frame) == SortByKey(frame, KeyOf(Range(frame), ABSortKey))

BuildA(sorted, n) ==
    [i \in 1..Min(n, Len(sorted)) |-> make_row_single(TaskIdOf("A", i), "A", sorted[i])]

\* variant: the B TaskIDs continue the numbering of the A rows
BuildB_ContinuesNumbering(sorted, na, nb) ==
    LET b_start == Min(na, Len(sorted))
        b_end == Min(b_start + nb, Len(sorted))
    IN [i \in 1..Max(0, b_end - b_start) |->
            make_row_single(TaskIdOf("B", b_start + i), "B", sorted[b_start + i])]

BuildB(sorted, na, nb) ==
    LET b_start == Min(na, Len(sorted))
        b_end == Min(b_start + nb, Len(sorted))
    IN [i \in 1..Max(0, b_end - b_start) |->
            make_row_single(TaskIdOf("B", i), "B", sorted[b_start + i])]

UsedOf(rows) == {<<rows[i].Company_1, rows[i].Ticker_1>> : i \in 1..Len(rows)}

\* the table assemble() writes
MasterOf(ab_df, two_df, na, nb, nyoy, npeer) ==
    LET sorted == SortAB(ab_df)
        rowsA == BuildA(sorted, na)
        rowsB == BuildB(sorted, na, nb)
        rowsYoy == pick_yoy(two_df, nyoy)
        rowsPeer == pick_peers(sorted, npeer, UsedOf(rowsYoy))
    IN rowsA \o rowsB \o rowsYoy \o rowsPeer

Assemble ==
    /\ apc = "start"
    /\ master' = MasterOf(ab, two, a_count, b_count, c_yoy_count, c_peer_count)
    /\ apc' = "written"
    /\ UNCHANGED <<ab, two, a_count, b_count, c_yoy_count, c_peer_count>>
    /\ UNCHANGED <<fvars, dvars, nvars, bvars>>

-----------------------------------------------------------------------------
(* Inputs of the Task Assembler *)

Companies == {"Acme", "Bolt"}
TickerOf(c) == IF c = "Acme" THEN "ACM" ELSE "BLT"
Sectors == {"Energy", "Tech"}
ABDates == {<<2023, 11, 1>>, <<2024, 11, 1>>}
TwoDates == {<<2023, 11, 1>>, <<2024, 3, 1>>, <<2024, 11, 1>>}

ABRecords == {Rec(c, TickerOf(c), s, d) : c \in Companies, s \in Sectors, d \in ABDates}

\* in the TWO manifest Acme appears under its ticker or under another one
TwoRecords ==
    {Rec("Acme", t, "Tech", d) : t \in {"ACM", "ACMX"}, d \in TwoDates}
    \cup {Rec("Bolt", "BLT", "Energy", d) : d \in TwoDates}

\* the records of one sector, and the records of the November filings
ABTech == {r \in ABRecords : r.Sector = "Tech"}
TwoNov == {r \in TwoRecords : r.FilingDate[2] = 11}

SeqsUpTo(S, n) == UNION {[1..m -> S] : m \in 0..n}

\* The inputs explored are four families of (ab, two, counts):
\*   an AB manifest alone, any counts for A and B;
\*   an AB manifest alone, any count for Peer;
\*   a TWO manifest alone, any count for YoY;
\*   both manifests, shorter and over fewer records, the four counts equal.
InputsAB ==
    /\ ab \in SeqsUpTo(ABRecords, MaxAB)
    /\ two = <<>>
    /\ a_count \in 0..MaxCount
    /\ b_count \in 0..MaxCount
    /\ c_yoy_count = 0
    /\ c_peer_count = 0

InputsPeer ==
    /\ ab \in SeqsUpTo(ABRecords, MaxAB)
    /\ two = <<>>
    /\ a_count = 0
    /\ b_count = 0
    /\ c_yoy_count = 0
    /\ c_peer_count \in 0..MaxCount

InputsYoY ==
    /\ ab = <<>>
    /\ two \in SeqsUpTo(TwoRecords, MaxTwo)
    /\ a_count = 0
    /\ b_count = 0
    /\ c_yoy_count \in 0..MaxCount
    /\ c_peer_count = 0

InputsBoth ==
    /\ ab \in SeqsUpTo(ABTech, MaxAB - 1)
    /\ two \in SeqsUpTo(TwoNov, MaxTwo - 1)
    /\ \E k \in 0..MaxCount :
          /\ a_count = k
          /\ b_count = k
          /\ c_yoy_count = k
          /\ c_peer_count = k

AsmInit ==
    /\ apc = "start"
    /\ master = <<>>
    /\ FinIdle
    /\ DlIdle
    /\ NameIdle
    /\ BuildIdle
    /\ \/ InputsYoY
       \/ InputsAB
       \/ InputsPeer
       \/ InputsBoth

AsmNext == Assemble

SpecAssemble == AsmInit /\ [][AsmNext]_vars

-----------------------------------------------------------------------------
(* Task Assembler: properties *)

Written == apc = "written"

RowsOf(cat) == LET IsCat(trow) == trow.Category = cat IN FilterSeq(master, IsCat)

Slot1Populated(trow) ==
    /\ trow.Company_1 # "" /\ trow.Ticker_1 # "" /\ trow.Sector_1 # "" /\ trow.Form_1 # ""
    /\ trow.FilingDate_1 # <<>> /\ trow.Accession_1 # <<>> /\ trow.OpenAsHTMLURL_1 # <<>>
Slot2Populated(trow) ==
    /\ trow.Company_2 # "" /\ trow.Ticker_2 # "" /\ trow.Sector_2 # "" /\ trow.Form_2 # ""
    /\ trow.FilingDate_2 # <<>> /\ trow.Accession_2 # <<>> /\ trow.OpenAsHTMLURL_2 # <<>>
Slot2Empty(trow) ==
    /\ trow.Company_2 = "" /\ trow.Ticker_2 = "" /\ trow.Sector_2 = "" /\ trow.Form_2 = ""
    /\ trow.Period_2 = <<>> /\ trow.FilingDate_2 = <<>>
    /\ trow.Accession_2 = <<>> /\ trow.OpenAsHTMLURL_2 = <<>>

\* C1 (as claimed): every category has at most its requested count of rows,
\* so the table has at most a_count + b_count + c_yoy_count + c_peer_count rows.
C1_RowCountsWithinRequested ==
    Written =>
        /\ Len(RowsOf("A")) <= a_count
        /\ Len(RowsOf("B")) <= b_count
        /\ Len(RowsOf("C (YoY)")) <= c_yoy_count
        /\ Len(RowsOf("C (Peer)")) <= c_peer_count
        /\ Len(master) <= a_count + b_count + c_yoy_count + c_peer_count

\* C2: the TaskIDs of the table are pairwise distinct, and the i-th trow of
\* each category carries PREFIX followed by the two decimal digits of i.
CategoryPrefix ==
    [c \in {"A", "B", "C (YoY)", "C (Peer)"} |->
        IF c = "A" THEN "A" ELSE IF c = "B" THEN "B"
        ELSE IF c = "C (YoY)" THEN "C_YOY" ELSE "C_PEER"]

C2_TaskIdsSequential ==
    Written =>
        /\ \A i, j \in 1..Len(master) : i # j => master[i].TaskID # master[j].TaskID
        /\ \A c \in DOMAIN CategoryPrefix :
              \A i \in 1..Len(RowsOf(c)) :
                  RowsOf(c)[i].TaskID = <<CategoryPrefix[c], i \div 10, i % 10>>

\* a table with two A rows, a YoY trow and two Peer rows
C2_Witness ==
    /\ Written
    /\ Len(RowsOf("A")) = 2
    /\ Len(RowsOf("C (YoY)")) = 1
    /\ Len(RowsOf("C (Peer)")) = 2

\* C3: a YoY trow pairs two filings of one (Company, Ticker, Sector) group of
\* different years, the newer in slot 1: slot 1 is the most recent filing of
\* the group, slot 2 the most recent one of a year other than slot 1's.
SameGroup(r, trow) ==
    r.Company = trow.Company_1 /\ r.Ticker = trow.Ticker_1 /\ r.Sector = trow.Sector_1

C3_YoYPairing ==
    Written =>
        \A i \in 1..Len(RowsOf("C (YoY)")) :
            LET trow == RowsOf("C (YoY)")[i]
                grp == {r \in Range(two) : SameGroup(r, trow)}
            IN /\ trow.Company_1 = trow.Company_2
               /\ trow.FilingDate_1[1] # trow.FilingDate_2[1]
               /\ DateKey(trow.FilingDate_1) >= DateKey(trow.FilingDate_2)
               /\ \E r \in grp : r.FilingDate = trow.FilingDate_1
               /\ \A r \in grp : DateKey(r.FilingDate) <= DateKey(trow.FilingDate_1)
               /\ \E r \in grp : r.FilingDate = trow.FilingDate_2
                                  /\ r.Ticker = trow.Ticker_2 /\ r.Sector = trow.Sector_2
               /\ \A r \in grp : r.FilingDate[1] # trow.FilingDate_1[1]
                                  => DateKey(r.FilingDate) <= DateKey(trow.FilingDate_2)

\* a YoY trow of a group holding a later filing of slot 1's own year between
\* its two slots
C3_Witness ==
    /\ Written
    /\ \E i \in 1..Len(RowsOf("C (YoY)")) :
          LET trow == RowsOf("C (YoY)")[i]
          IN \E r \in Range(two) :
                /\ SameGroup(r, trow)
                /\ DateKey(r.FilingDate) < DateKey(trow.FilingDate_1)
                /\ DateKey(r.FilingDate) > DateKey(trow.FilingDate_2)

\* C4 (as claimed): a Peer trow pairs two different companies of one sector.
C4_PeerPairing ==
    Written =>
        \A i \in 1..Len(RowsOf("C (Peer)")) :
            LET trow == RowsOf("C (Peer)")[i]
            IN trow.Company_1 # trow.Company_2 /\ trow.Sector_1 = trow.Sector_2

\* C5 (as claimed): the company of slot 1 of a YoY trow is in no Peer trow.
C5_YoYAnchorsNotInPeers ==
    Written =>
        \A i \in 1..Len(RowsOf("C (YoY)")) :
            \A j \in 1..Len(RowsOf("C (Peer)")) :
                /\ RowsOf("C (YoY)")[i].Company_1 # RowsOf("C (Peer)")[j].Company_1
                /\ RowsOf("C (YoY)")[i].Company_1 # RowsOf("C (Peer)")[j].Company_2

-----------------------------------------------------------------------------
(* PDF Finalizer: cells and strings *)

\* A cell of a CSV file is a string, a sequence of one-character strings;
\* a blank cell is <<>>.  pandas reads a blank cell as the float NaN.
NaN == <<"NaN">>

Whitespace == {" ", "\t", "\n"}
UnsafeChars == {"\\", "/", ":", "*", "?", "\"", "<", ">", "|"}

\* str.strip()
RECURSIVE LStrip(_)
LStrip(t) == IF t # <<>> /\ Head(t) \in Whitespace THEN LStrip(Tail(t)) ELSE t
RECURSIVE RStrip(_)
RStrip(t) == IF t # <<>> /\ t[Len(t)] \in Whitespace
             THEN RStrip(SubSeq(t, 1, Len(t) - 1)) ELSE t
Strip(t) == RStrip(LStrip(t))

\* str.lower(), for the letters of "nan"
LowerChar(c) == IF c = "N" THEN "n" ELSE IF c = "A" THEN "a" ELSE c
Lower(t) == [i \in 1..Len(t) |-> LowerChar(t[i])]

\* str(value)
PyStr(value) == IF value = NaN THEN <<"n", "a", "n">> ELSE value

\* bool(value): a float NaN is true, a string is true when non-empty
Truthy(value) == value = NaN \/ value # <<>>

\* the length cap of _sanitize
SanitizeCap == 150

_sanitize(value) ==
    IF value = NaN THEN <<>>
    ELSE LET text == Strip(PyStr(value))
             NotSpace(c) == c \notin Whitespace
             Safe(c) == c \notin UnsafeChars
         IN Take(FilterSeq(FilterSeq(text, NotSpace), Safe), SanitizeCap)

_clean_url(value) ==
    IF value = NaN THEN <<>>
    ELSE LET t == Strip(PyStr(value))
         IN IF t = <<>> \/ Lower(t) = <<"n", "a", "n">> THEN <<>> ELSE t

\* hashlib.sha256 of the rendered file: a non-empty digest, one per file
_checksum(pdf_name) == <<"#">> \o pdf_name

\* the columns of slot idx
UrlCol(idx) == IF idx = 1 THEN "OpenAsHTMLURL_1" ELSE "OpenAsHTMLURL_2"
NameCol(idx) == IF idx = 1 THEN "PDF_filename_1" ELSE "PDF_filename_2"
SumCol(idx) == IF idx = 1 THEN "PDF_checksum_1" ELSE "PDF_checksum_2"
TickerCol(idx) == IF idx = 1 THEN "Ticker_1" ELSE "Ticker_2"
FormCol(idx) == IF idx = 1 THEN "Form_1" ELSE "Form_2"
PeriodCol(idx) == IF idx = 1 THEN "Period_1" ELSE "Period_2"
DateCol(idx) == IF idx = 1 THEN "FilingDate_1" ELSE "FilingDate_2"

PdfCols == {"PDF_filename_1", "PDF_checksum_1", "PDF_filename_2", "PDF_checksum_2"}
BaseCols == {"TaskID", "Notes", "Ticker_1", "Form_1", "Period_1", "FilingDate_1",
             "OpenAsHTMLURL_1", "Ticker_2", "Form_2", "Period_2", "FilingDate_2",
             "OpenAsHTMLURL_2"}

\* "_".join(parts)
JoinUnderscore(parts) ==
    LET J[i \in 0..Len(parts)] ==
            IF i = 0 THEN <<>>
            ELSE IF i = 1 THEN parts[1]
            ELSE J[i-1] \o <<"_">> \o parts[i]
    IN J[Len(parts)]

DotPdf == <<".", "p", "d", "f">>
DotHtml == <<".", "h", "t", "m", "l">>

_determine_filename(trow, idx) ==
    LET parts == <<_sanitize(trow["TaskID"]), _sanitize(trow[TickerCol(idx)]),
                   _sanitize(trow[FormCol(idx)]), _sanitize(trow[PeriodCol(idx)]),
                   _sanitize(trow[DateCol(idx)])>>
                 \o (IF idx = 2 THEN << <<"d", "o", "c", "2">> >> ELSE <<>>)
        NonEmpty(x) == x # <<>>
        joined == JoinUnderscore(FilterSeq(parts, NonEmpty))
        base == IF joined # <<>> THEN joined
                ELSE <<"r", "o", "w", "_">> \o (IF idx = 1 THEN <<"1">> ELSE <<"2">>)
    IN base \o DotPdf

\* filename.replace(".pdf", ".html"): every occurrence, from the left;
\* R[i] is the text from position i on, replaced
ReplacePdfByHtml(t) ==
    LET n == Len(t)
        k == Len(DotPdf)
        R[i \in 1..(n + 1)] ==
            IF i > n THEN <<>>
            ELSE IF i + k - 1 <= n /\ SubSeq(t, i, i + k - 1) = DotPdf
                 THEN DotHtml \o R[i + k]
                 ELSE <<t[i]>> \o R[i + 1]
    IN R[1]

\* cell texts that pd.read_csv, called with its defaults, takes for missing
\* values (among them; the blank cell is the other)
NaStrings == {<<"N", "/", "A">>, <<"N", "A">>, <<"n", "a", "n">>, <<"N", "a", "N">>,
              <<"n", "u", "l", "l">>, <<"N", "U", "L", "L">>, <<"N", "o", "n", "e">>}

\* pd.read_csv: blank cells and missing-value texts become NaN; then main adds
\* the PDF columns the file lacks, filled with ""
ReadCsv(file) ==
    [i \in 1..Len(file) |->
        [c \in (DOMAIN file[i]) \cup PdfCols |->
            IF c \notin DOMAIN file[i] THEN <<>>
            ELSE IF file[i][c] = <<>> \/ file[i][c] \in NaStrings THEN NaN
            ELSE file[i][c]]]

\* df.to_csv: NaN is written as a blank cell
WriteCsv(frame) ==
    [i \in 1..Len(frame) |->
        [c \in DOMAIN frame[i] |-> IF frame[i][c] = NaN THEN <<>> ELSE frame[i][c]]]

-----------------------------------------------------------------------------
(* PDF Finalizer: main *)

\* longest tasks table
MaxTableRows == 2

\* df = pd.read_csv(csv_file), the PDF columns added; the loop starts
ReadTable ==
    /\ fpc = "start"
    /\ df' = ReadCsv(csv_in)
    /\ idx_row' = 1
    /\ doc_idx' = 1
    /\ row' = IF csv_in # <<>> THEN ReadCsv(csv_in)[1] ELSE <<>>
    /\ fpc' = "loop"
    /\ UNCHANGED <<csv_in, only_missing, overwrite, html_cache, failed_rows,
                   out_csv, visits, fetched, rendered>>
    /\ UNCHANGED <<avars, dvars, nvars, bvars>>

InLoop == fpc = "loop" /\ idx_row <= Len(df)

url == _clean_url(row[UrlCol(doc_idx)])

\* str(row.get(f"PDF_filename_{doc_idx}") or "").strip()
FilenameCellSetOf(trow, idx) ==
    LET value == trow[NameCol(idx)]
    IN Strip(PyStr(IF Truthy(value) THEN value ELSE <<>>)) # <<>>

FilenameCellSet == FilenameCellSetOf(row, doc_idx)

Proceeds == InLoop /\ url # <<>> /\ ~(only_missing /\ FilenameCellSet)

filename == _determine_filename(row, doc_idx)
html_name == ReplacePdfByHtml(filename)
need_download == html_name \notin html_cache \/ overwrite

\* continue / the end of the loop body: the next slot, then the next row
NextSlot(frame) ==
    IF doc_idx = 1
    THEN doc_idx' = 2 /\ idx_row' = idx_row /\ row' = row
    ELSE /\ doc_idx' = 1
         /\ idx_row' = idx_row + 1
         /\ row' = IF idx_row + 1 <= Len(frame) THEN frame[idx_row + 1] ELSE row

Visit(outcome) == visits' = Append(visits, [row |-> idx_row, slot |-> doc_idx, outcome |-> outcome])

FailedLine(reason) == [TaskID |-> row["TaskID"], URL |-> url, Reason |-> reason]

\* if not url: continue
SkipNoUrl ==
    /\ InLoop
    /\ url = <<>>
    /\ Visit("SKIPPED")
    /\ NextSlot(df)
    /\ UNCHANGED <<fpc, csv_in, only_missing, overwrite, df, html_cache, failed_rows,
                   out_csv, fetched, rendered>>
    /\ UNCHANGED <<avars, dvars, nvars, bvars>>

\* if args.only_missing and <filename cell>: continue
SkipHasFilename ==
    /\ InLoop
    /\ url # <<>>
    /\ only_missing /\ FilenameCellSet
    /\ Visit("SKIPPED")
    /\ NextSlot(df)
    /\ UNCHANGED <<fpc, csv_in, only_missing, overwrite, df, html_cache, failed_rows,
                   out_csv, fetched, rendered>>
    /\ UNCHANGED <<avars, dvars, nvars, bvars>>

\* variant: the failed download leaves the loop over the slots of the row
DownloadFailed_Breaks ==
    /\ Proceeds
    /\ need_download
    /\ fetched' = fetched \cup {<<idx_row, doc_idx>>}
    /\ failed_rows' = Append(failed_rows, FailedLine("download_failed_or_blocked"))
    /\ Visit("FAILED")
    /\ doc_idx' = 1
    /\ idx_row' = idx_row + 1
    /\ row' = IF idx_row + 1 <= Len(df) THEN df[idx_row + 1] ELSE row
    /\ UNCHANGED <<fpc, csv_in, only_missing, overwrite, df, html_cache, out_csv, rendered>>
    /\ UNCHANGED <<avars, dvars, nvars, bvars>>

\* _download_html_with_retries returns False
DownloadFailed ==
    /\ Proceeds
    /\ need_download
    /\ fetched' = fetched \cup {<<idx_row, doc_idx>>}
    /\ failed_rows' = Append(failed_rows, FailedLine("download_failed_or_blocked"))
    /\ Visit("FAILED")
    /\ NextSlot(df)
    /\ UNCHANGED <<fpc, csv_in, only_missing, overwrite, df, html_cache, out_csv, rendered>>
    /\ UNCHANGED <<avars, dvars, nvars, bvars>>

\* the download, when one is needed, returns True and leaves the cache file
Downloaded ==
    /\ Proceeds
    /\ IF need_download
       THEN /\ fetched' = fetched \cup {<<idx_row, doc_idx>>}
            /\ html_cache' = html_cache \cup {html_name}
       ELSE UNCHANGED <<fetched, html_cache>>

\* the cached file is smaller than 1024 bytes
HtmlTooSmall ==
    /\ Downloaded
    /\ failed_rows' = Append(failed_rows, FailedLine("html_too_small"))
    /\ Visit("FAILED")
    /\ NextSlot(df)
    /\ UNCHANGED <<fpc, csv_in, only_missing, overwrite, df, out_csv, rendered>>
    /\ UNCHANGED <<avars, dvars, nvars, bvars>>

\* _render_local_html returns False, or leaves no PDF
RenderFailed ==
    /\ Downloaded
    /\ rendered' = rendered \cup {<<idx_row, doc_idx>>}
    /\ failed_rows' = Append(failed_rows, FailedLine("render_failed"))
    /\ Visit("FAILED")
    /\ NextSlot(df)
    /\ UNCHANGED <<fpc, csv_in, only_missing, overwrite, df, out_csv>>
    /\ UNCHANGED <<avars, dvars, nvars, bvars>>

\* the PDF is rendered: its name and checksum are written to the table
RenderDone ==
    /\ Downloaded
    /\ rendered' = rendered \cup {<<idx_row, doc_idx>>}
    /\ df' = [df EXCEPT ![idx_row] =
                [@ EXCEPT ![NameCol(doc_idx)] = filename,
                          ![SumCol(doc_idx)] = _checksum(filename)]]
    /\ Visit("DONE")
    /\ NextSlot(df')
    /\ UNCHANGED <<fpc, csv_in, only_missing, overwrite, failed_rows, out_csv>>
    /\ UNCHANGED <<avars, dvars, nvars, bvars>>

\* df.to_csv(out_csv) after the loop
WriteTable ==
    /\ fpc = "loop"
    /\ idx_row > Len(df)
    /\ out_csv' = WriteCsv(df)
    /\ fpc' = "done"
    /\ UNCHANGED <<csv_in, only_missing, overwrite, df, idx_row, doc_idx, row,
                   html_cache, failed_rows, visits, fetched, rendered>>
    /\ UNCHANGED <<avars, dvars, nvars, bvars>>

-----------------------------------------------------------------------------
(* Inputs of the PDF Finalizer *)

DigitChar == <<"1", "2", "3", "4", "5", "6", "7", "8", "9">>

OldName == <<"o", "l", "d", ".", "p", "d", "f">>
OldSum == <<"#", "o", "l", "d">>

\* A row of the tasks file.  kind "A": one filing, slot 2 blank; kind "C":
\* two filings.  named: the table went through an earlier run and a review:
\* the slots that have a URL carry a PDF_filename and a PDF_checksum, and the
\* reviewer has filled in Notes.
BaseCells(i, kind, named) ==
    [c \in BaseCols |->
        IF c = "TaskID" THEN <<kind, "_", "0", DigitChar[i]>>
        ELSE IF c = "Notes"
             THEN (IF ~named THEN <<>>
                   ELSE IF kind = "C" THEN <<"s", "e", "e", " ", "p", "2">>
                   ELSE <<"N", "/", "A">>)
        ELSE IF c = "Ticker_1" THEN <<"A", "C", "M">>
        ELSE IF c = "Form_1" THEN <<"1", "0", "-", "K">>
        ELSE IF c = "Period_1" THEN <<>>
        ELSE IF c = "FilingDate_1" THEN <<"2", "0", "2", "4", "-", "1", "1">>
        ELSE IF c = "OpenAsHTMLURL_1" THEN <<"u", ":", "/", "1">>
        ELSE IF kind = "A" THEN <<>>
        ELSE IF c = "Ticker_2" THEN <<"B", "L", "T">>
        ELSE IF c = "Form_2" THEN <<"1", "0", "-", "K">>
        ELSE IF c = "Period_2" THEN <<"F", "Y", "2", "3">>
        ELSE IF c = "FilingDate_2" THEN <<"2", "0", "2", "3", "-", "1", "1">>
        ELSE <<"u", ":", "/", "2">>]

PdfCells(kind, named) ==
    [c \in PdfCols |->
        IF ~named THEN <<>>
        ELSE IF c = "PDF_filename_1" THEN OldName
        ELSE IF c = "PDF_checksum_1" THEN OldSum
        ELSE IF kind = "A" THEN <<>>
        ELSE IF c = "PDF_filename_2" THEN OldName
        ELSE OldSum]

FileRow(i, kind, named, withPdfCols) ==
    [c \in BaseCols \cup (IF withPdfCols THEN PdfCols ELSE {}) |->
        IF c \in BaseCols THEN BaseCells(i, kind, named)[c] ELSE PdfCells(kind, named)[c]]

\* the tables of n rows: with the PDF columns, blank (as the Task Assembler
\* writes them) or filled by an earlier run, or without the PDF columns
TablesOf(n) ==
    {[i \in 1..n |-> FileRow(i, k[i], m, TRUE)] :
        k \in [1..n -> {"A", "C"}], m \in BOOLEAN}
    \cup {[i \in 1..n |-> FileRow(i, k[i], FALSE, FALSE)] : k \in [1..n -> {"A", "C"}]}

\* the cache files an earlier run over the table may have left
HtmlNamesOf(file) ==
    {ReplacePdfByHtml(_determine_filename(ReadCsv(file)[i], s)) :
        i \in 1..Len(file), s \in {1, 2}}

FinInit ==
    /\ fpc = "start"
    /\ csv_in \in UNION {TablesOf(n) : n \in 0..MaxTableRows}
    /\ only_missing \in BOOLEAN
    /\ overwrite \in BOOLEAN
    /\ html_cache \in {{}, HtmlNamesOf(csv_in)}
    /\ df = <<>> /\ idx_row = 0 /\ doc_idx = 0 /\ row = <<>>
    /\ failed_rows = <<>> /\ out_csv = <<>> /\ visits = <<>>
    /\ fetched = {} /\ rendered = {}
    /\ AsmIdle
    /\ DlIdle
    /\ NameIdle
    /\ BuildIdle

FinNext ==
    \/ ReadTable
    \/ SkipNoUrl
    \/ SkipHasFilename
    \/ DownloadFailed
    \/ HtmlTooSmall
    \/ RenderFailed
    \/ RenderDone
    \/ WriteTable

SpecFinalize == FinInit /\ [][FinNext]_vars

-----------------------------------------------------------------------------
(* PDF Finalizer: _download_html_with_retries, one fetch or sleep per step *)

\* largest --max-fetch-retries explored
MaxRetries == 2

\* _download_html_once returns True: the body is written to the cache file
FetchOk ==
    /\ dpc = "fetch"
    /\ dl_trace' = Append(dl_trace, [ev |-> "fetch_ok", attempt |-> attempt])
    /\ path_file' = "fresh"
    /\ ok' = TRUE
    /\ dpc' = "returned"
    /\ UNCHANGED <<max_fetch_retries, attempt>>
    /\ UNCHANGED <<avars, fvars, nvars, bvars>>

\* the body holds BLOCK_SNIPPET: False is returned before path.write_text
FetchBlocked ==
    /\ dpc = "fetch"
    /\ dl_trace' = Append(dl_trace, [ev |-> "fetch_blocked", attempt |-> attempt])
    /\ ok' = FALSE
    /\ dpc' = "sleep"
    /\ UNCHANGED <<max_fetch_retries, attempt, path_file>>
    /\ UNCHANGED <<avars, fvars, nvars, bvars>>

\* session.get or raise_for_status raises: caught, False is returned
FetchError ==
    /\ dpc = "fetch"
    /\ dl_trace' = Append(dl_trace, [ev |-> "fetch_error", attempt |-> attempt])
    /\ ok' = FALSE
    /\ dpc' = "sleep"
    /\ UNCHANGED <<max_fetch_retries, attempt, path_file>>
    /\ UNCHANGED <<avars, fvars, nvars, bvars>>

\* time.sleep(sleep_s) after a failed attempt, then the next iteration of
\* for attempt in range(1, max_fetch_retries + 2), or return False after it
SleepThenNext ==
    /\ dpc = "sleep"
    /\ dl_trace' = Append(dl_trace, [ev |-> "sleep", attempt |-> attempt])
    /\ IF attempt + 1 < max_fetch_retries + 2
       THEN attempt' = attempt + 1 /\ dpc' = "fetch"
       ELSE attempt' = attempt /\ dpc' = "returned"
    /\ UNCHANGED <<max_fetch_retries, path_file, ok>>
    /\ UNCHANGED <<avars, fvars, nvars, bvars>>

DlInit ==
    /\ dpc = "fetch"
    /\ max_fetch_retries \in 0..MaxRetries
    /\ attempt = 1
    /\ path_file \in {"absent", "stale"}
    /\ ok = FALSE
    /\ dl_trace = <<>>
    /\ AsmIdle
    /\ FinIdle
    /\ NameIdle
    /\ BuildIdle

DlNext == FetchOk \/ FetchBlocked \/ FetchError \/ SleepThenNext

SpecDownload == DlInit /\ [][DlNext]_vars

Fetches == FilterSeq(dl_trace, LAMBDA e : e.ev # "sleep")
FailedFetches == FilterSeq(dl_trace, LAMBDA e : e.ev \in {"fetch_blocked", "fetch_error"})

\* C8 (as claimed): at most max_fetch_retries + 1 fetches; True is returned at
\* the first successful fetch, which is the last event; False only after
\* exactly max_fetch_retries + 1 failed fetches; every sleep lies between two
\* consecutive fetches; a blocked or failed fetch leaves the cache file unwritten.
C8_RetrySchedule ==
    /\ Len(Fetches) <= max_fetch_retries + 1
    /\ \A i \in 1..Len(dl_trace) :
          dl_trace[i].ev = "sleep" =>
              /\ i > 1 /\ dl_trace[i-1].ev # "sleep"
              /\ dpc = "returned" => (i < Len(dl_trace) /\ dl_trace[i+1].ev # "sleep")
    /\ (dpc = "returned" /\ ok) =>
          /\ dl_trace[Len(dl_trace)].ev = "fetch_ok"
          /\ Len(FailedFetches) = Len(Fetches) - 1
          /\ path_file = "fresh"
    /\ (dpc = "returned" /\ ~ok) =>
          /\ Len(FailedFetches) = max_fetch_retries + 1
          /\ Len(Fetches) = max_fetch_retries + 1
          /\ path_file # "fresh"

-----------------------------------------------------------------------------
(* Properties of the PDF Finalizer *)

Finished == fpc = "done"

\* the cell of the tasks file; a column the file lacks reads as blank
InFileCell(r, c) == IF c \in DOMAIN csv_in[r] THEN csv_in[r][c] ELSE <<>>

UrlOf(r, s) == _clean_url(ReadCsv(csv_in)[r][UrlCol(s)])
NameOf(r, s) == _determine_filename(ReadCsv(csv_in)[r], s)

HasOutcome(r, s, outcome) ==
    \E k \in 1..Len(visits) : visits[k] = [row |-> r, slot |-> s, outcome |-> outcome]

PdfCellsAsInFile(r, s) ==
    /\ out_csv[r][NameCol(s)] = InFileCell(r, NameCol(s))
    /\ out_csv[r][SumCol(s)] = InFileCell(r, SumCol(s))

SkippedUntouched(r, s) ==
    /\ HasOutcome(r, s, "SKIPPED")
    /\ <<r, s>> \notin fetched \cup rendered
    /\ PdfCellsAsInFile(r, s)

\* C7 (as claimed): in a run with --only-missing, a slot with a non-empty URL
\* is skipped (no download, no render, no table write) if and only if its
\* PDF_filename cell is set in the input file, so a slot whose cell is blank
\* proceeds; and a slot the run completed is skipped by an --only-missing run
\* over the run's output table.
C7_OnlyMissingSkipsIffFilenameSet ==
    (Finished /\ only_missing) =>
        \A r \in 1..Len(csv_in) : \A s \in {1, 2} :
            UrlOf(r, s) # <<>> =>
                /\ SkippedUntouched(r, s) <=> Strip(InFileCell(r, NameCol(s))) # <<>>
                /\ HasOutcome(r, s, "DONE") =>
                      FilenameCellSetOf(ReadCsv(out_csv)[r], s)

\* what the run does instead: the slot is skipped exactly when the cell as
\* read by pd.read_csv passes the test of the loop, which a blank cell of a
\* PDF_filename column that the file carries does (it reads as NaN)
OnlyMissingSkipsIffCellTruthy ==
    (Finished /\ only_missing) =>
        \A r \in 1..Len(csv_in) : \A s \in {1, 2} :
            UrlOf(r, s) # <<>> =>
                /\ SkippedUntouched(r, s) <=> FilenameCellSetOf(ReadCsv(csv_in)[r], s)
                /\ HasOutcome(r, s, "DONE") =>
                      FilenameCellSetOf(ReadCsv(out_csv)[r], s)

BlankCellSkipped ==
    /\ Finished /\ only_missing
    /\ \E r \in 1..Len(csv_in) : \E s \in {1, 2} :
          /\ UrlOf(r, s) # <<>>
          /\ NameCol(s) \in DOMAIN csv_in[r]
          /\ csv_in[r][NameCol(s)] = <<>>
          /\ SkippedUntouched(r, s)

\* the slots of a table of n rows in the order of the two nested loops
SlotOrder(n) == [k \in 1..(2 * n) |-> <<(k + 1) \div 2, 2 - (k % 2)>>]

VisitedSlots == [k \in 1..Len(visits) |-> <<visits[k].row, visits[k].slot>>]
FailedVisits == FilterSeq(visits, LAMBDA v : v.outcome = "FAILED")
FailReasons == {"download_failed_or_blocked", "html_too_small", "render_failed"}

\* the slots the loop has left behind
SlotsHandled ==
    IF fpc = "loop" THEN 2 * (idx_row - 1) + (doc_idx - 1)
    ELSE IF fpc = "done" THEN 2 * Len(csv_in)
    ELSE 0

\* the run can take a step: the table is still to be read, or one of the
\* branches of the loop body applies to the slot at hand, or the loop is over
SomeBranchApplies ==
    \/ fpc = "start"
    \/ InLoop /\ url = <<>>
    \/ InLoop /\ url # <<>> /\ only_missing /\ FilenameCellSet
    \/ Proceeds
    \/ fpc = "loop" /\ idx_row > Len(df)

\* C9: whatever the downloads, size checks and renders give, the slots are
\* handled once each, row by row and slot 1 before slot 2, each ending as
\* SKIPPED, DONE or FAILED; the failure log holds one (TaskID, URL, Reason)
\* line per FAILED slot, in order; after any outcome the run can go on, and
\* it ends with every slot handled and the output table written.
C9_EverySlotOnceThenWritten ==
    /\ fpc \in {"loop", "done"} =>
          /\ Len(visits) = SlotsHandled
          /\ VisitedSlots = Take(SlotOrder(Len(csv_in)), Len(visits))
          /\ \A k \in 1..Len(visits) : visits[k].outcome \in {"SKIPPED", "DONE", "FAILED"}
          /\ Len(failed_rows) = Len(FailedVisits)
          /\ \A k \in 1..Len(failed_rows) :
                /\ failed_rows[k].TaskID = ReadCsv(csv_in)[FailedVisits[k].row]["TaskID"]
                /\ failed_rows[k].URL = UrlOf(FailedVisits[k].row, FailedVisits[k].slot)
                /\ failed_rows[k].Reason \in FailReasons
    /\ Finished =>
          /\ Len(visits) = 2 * Len(csv_in)
          /\ Len(out_csv) = Len(csv_in)
    /\ fpc \notin {"idle", "done"} => SomeBranchApplies

\* a finished run in which a slot failed, a later slot was completed and
\* another was skipped
C9_Witness ==
    /\ Finished
    /\ Len(out_csv) = Len(csv_in)
    /\ \E i, j \in 1..Len(visits) :
          /\ i < j
          /\ visits[i].outcome = "FAILED"
          /\ visits[j].outcome = "DONE"
    /\ \E k \in 1..Len(visits) : visits[k].outcome = "SKIPPED"
    /\ Len(failed_rows) >= 1

\* C10 (as claimed): a cell changes only when a slot reaches DONE, and then
\* PDF_filename and PDF_checksum of that slot change together; for a SKIPPED
\* or FAILED slot the PDF cells stay as they were, and every other column of
\* every row is the same in the output table as in the input table.
C10_OnlyDoneSlotsChangeCells ==
    Finished =>
        \A r \in 1..Len(csv_in) :
            /\ DOMAIN out_csv[r] = (DOMAIN csv_in[r]) \cup PdfCols
            /\ \A c \in BaseCols : out_csv[r][c] = csv_in[r][c]
            /\ \A s \in {1, 2} :
                  IF HasOutcome(r, s, "DONE")
                  THEN /\ out_csv[r][NameCol(s)] = NameOf(r, s)
                       /\ out_csv[r][SumCol(s)] = _checksum(NameOf(r, s))
                  ELSE PdfCellsAsInFile(r, s)

\* what the run does instead: the same, on the table as pd.read_csv loaded
\* it and df.to_csv writes it back
OnlyDoneSlotsChangeLoadedCells ==
    /\ fpc \in {"loop", "done"} =>
          \A r \in 1..Len(csv_in) :
              /\ DOMAIN df[r] = (DOMAIN csv_in[r]) \cup PdfCols
              /\ \A c \in BaseCols : df[r][c] = ReadCsv(csv_in)[r][c]
              /\ \A s \in {1, 2} :
                    IF HasOutcome(r, s, "DONE")
                    THEN /\ df[r][NameCol(s)] = NameOf(r, s)
                         /\ df[r][SumCol(s)] = _checksum(NameOf(r, s))
                    ELSE /\ df[r][NameCol(s)] = ReadCsv(csv_in)[r][NameCol(s)]
                         /\ df[r][SumCol(s)] = ReadCsv(csv_in)[r][SumCol(s)]
    /\ Finished => out_csv = WriteCsv(df)

NoteLost ==
    /\ Finished
    /\ \E r \in 1..Len(csv_in) : csv_in[r]["Notes"] # <<>> /\ out_csv[r]["Notes"] = <<>>

-----------------------------------------------------------------------------
(* PDF Finalizer: _determine_filename on its own, over cells of every kind *)

\* a text of n characters
Repeat(c, n) == [i \in 1..n |-> c]

\* a text one character longer than the cap of _sanitize
LongText == Repeat("x", SanitizeCap + 1)

\* the values a cell handed to _sanitize takes here: NaN, a clean text, a
\* text with whitespace and path-unsafe characters, one with nothing else,
\* and a text longer than the cap
NameCells == {NaN,
              <<"A", "_", "0", "1">>,
              <<" ", "1", "0", "\t", "K", "/", "A", ":", "\n">>,
              <<"?", " ", "*", "\\", "\"", "<", ">", "|">>,
              LongText}

NameRows(idx) ==
    [{"TaskID", TickerCol(idx), FormCol(idx), PeriodCol(idx), DateCol(idx)} -> NameCells]

\* return f"{base}.pdf"
DetermineFilename ==
    /\ npc = "start"
    /\ name_out' = _determine_filename(name_row, name_idx)
    /\ npc' = "returned"
    /\ UNCHANGED <<name_row, name_idx>>
    /\ UNCHANGED <<avars, fvars, dvars, bvars>>

NameInit ==
    /\ npc = "start"
    /\ name_idx \in {1, 2}
    /\ name_row \in NameRows(name_idx)
    /\ name_out = <<>>
    /\ AsmIdle
    /\ FinIdle
    /\ DlIdle
    /\ BuildIdle

NameNext == DetermineFilename

SpecFilename == NameInit /\ [][NameNext]_vars

CharsOf(t) == {t[i] : i \in 1..Len(t)}

\* C11 (as claimed): the filename holds no path-unsafe character and no
\* whitespace, and is at most the cap of _sanitize plus the length of ".pdf"
\* long, whatever TaskID, Ticker, Form, Period and FilingDate are.
C11_FilenameSafeAndCapped ==
    npc = "returned" =>
        /\ CharsOf(name_out) \cap UnsafeChars = {}
        /\ CharsOf(name_out) \cap Whitespace = {}
        /\ Len(name_out) <= SanitizeCap + Len(DotPdf)

\* what _determine_filename gives instead: the characters as claimed, the cap
\* on each of the five parts and not on the name
FilenameSafePartsCapped ==
    npc = "returned" =>
        /\ CharsOf(name_out) \cap UnsafeChars = {}
        /\ CharsOf(name_out) \cap Whitespace = {}
        /\ Len(name_out) <= 5 * SanitizeCap + 4 + Len(<<"_", "d", "o", "c", "2">>) + Len(DotPdf)

NameOverCap ==
    /\ npc = "returned"
    /\ name_idx = 1
    /\ Len(name_out) > SanitizeCap + Len(DotPdf)

-----------------------------------------------------------------------------
(* Manifest Builder: build_dual, one company of the input CSV per pass *)

\* longest input CSV
MaxCompanies == 3

\* the tickers as the input CSV spells them
InputTickers == {"acm", "BLT"}

\* str(r["Ticker"]).strip().upper()
UpperOf(t) == IF t = "acm" THEN "ACM" ELSE t

\* most filings that pick_filings finds for a company
MaxFilings == 2

AtCompany == bpc = "row" /\ pos <= Len(input_df)
ticker == UpperOf(input_df[pos])

Handled(outcome) ==
    b_trace' = Append(b_trace, [ev |-> "company", pos |-> pos, outcome |-> outcome])

\* the rows appended for the first k of the n filings picked
PickedRows(n, k) == [j \in 1..Min(n, k) |-> [Ticker |-> ticker, Filing |-> j]]

\* cik = ticker_map.get(ticker); if not cik: errors.append(...); continue
NoCikMapping ==
    /\ AtCompany
    /\ ticker \notin ticker_map
    /\ errors' = Append(errors, <<"No CIK mapping", ticker>>)
    /\ Handled("no_cik")
    /\ pos' = pos + 1
    /\ UNCHANGED <<bpc, input_df, ticker_map, ab_rows, two_rows>>
    /\ UNCHANGED <<avars, fvars, dvars, nvars>>

\* the try block runs through: fetch_submissions, then pick_filings with
\* max_per_company 1 and 2 over the same data
SubmissionsFetched ==
    /\ AtCompany
    /\ ticker \in ticker_map
    /\ \E n \in 0..MaxFilings :
          /\ ab_rows' = ab_rows \o PickedRows(n, 1)
          /\ two_rows' = two_rows \o PickedRows(n, 2)
    /\ Handled("ok")
    /\ bpc' = "finally"
    /\ UNCHANGED <<input_df, ticker_map, pos, errors>>
    /\ UNCHANGED <<avars, fvars, dvars, nvars>>

\* except requests.HTTPError
FetchHttpError ==
    /\ AtCompany
    /\ ticker \in ticker_map
    /\ errors' = Append(errors, <<"HTTP error", ticker>>)
    /\ Handled("http_error")
    /\ bpc' = "finally"
    /\ UNCHANGED <<input_df, ticker_map, pos, ab_rows, two_rows>>
    /\ UNCHANGED <<avars, fvars, dvars, nvars>>

\* except Exception
FetchOtherError ==
    /\ AtCompany
    /\ ticker \in ticker_map
    /\ errors' = Append(errors, <<"Error", ticker>>)
    /\ Handled("error")
    /\ bpc' = "finally"
    /\ UNCHANGED <<input_df, ticker_map, pos, ab_rows, two_rows>>
    /\ UNCHANGED <<avars, fvars, dvars, nvars>>

\* finally: time.sleep(0.2), then the next company
PolitenessDelay ==
    /\ bpc = "finally"
    /\ b_trace' = Append(b_trace, [ev |-> "sleep", pos |-> pos, outcome |-> ""])
    /\ pos' = pos + 1
    /\ bpc' = "row"
    /\ UNCHANGED <<input_df, ticker_map, errors, ab_rows, two_rows>>
    /\ UNCHANGED <<avars, fvars, dvars, nvars>>

\* write_manifest twice, after the loop
WriteManifests ==
    /\ bpc = "row"
    /\ pos > Len(input_df)
    /\ bpc' = "written"
    /\ UNCHANGED <<input_df, ticker_map, pos, errors, ab_rows, two_rows, b_trace>>
    /\ UNCHANGED <<avars, fvars, dvars, nvars>>

BuildInit ==
    /\ bpc = "row"
    /\ input_df \in UNION {[1..n -> InputTickers] : n \in 0..MaxCompanies}
    /\ ticker_map \in SUBSET {"ACM", "BLT"}
    /\ pos = 1
    /\ errors = <<>> /\ ab_rows = <<>> /\ two_rows = <<>> /\ b_trace = <<>>
    /\ AsmIdle
    /\ FinIdle
    /\ DlIdle
    /\ NameIdle

BuildNext ==
    \/ NoCikMapping
    \/ SubmissionsFetched
    \/ FetchHttpError
    \/ FetchOtherError
    \/ PolitenessDelay
    \/ WriteManifests

SpecBuild == BuildInit /\ [][BuildNext]_vars

\* the company handled at place i of the history is followed by the delay
\* before anything else happens
DelayFollows(i) ==
    /\ i < Len(b_trace) => b_trace[i + 1].ev = "sleep"
    /\ i = Len(b_trace) => bpc = "finally"

\* C12 (as claimed): the delay is made after every company, whatever its
\* outcome (fetched, fetch or HTTP error, no ticker-to-identifier mapping); no
\* company is followed directly by the next one or by the end of the loop.
C12_DelayAfterEveryCompany ==
    \A i \in 1..Len(b_trace) : b_trace[i].ev = "company" => DelayFollows(i)

\* what build_dual does instead: the delay after every company that has a
\* mapping, and none after a company that has none
DelayAfterMappedCompaniesOnly ==
    \A i \in 1..Len(b_trace) :
        b_trace[i].ev = "company" =>
            IF b_trace[i].outcome = "no_cik"
            THEN /\ bpc # "finally" \/ i < Len(b_trace)
                 /\ i < Len(b_trace) => b_trace[i + 1].ev = "company"
            ELSE DelayFollows(i)

NoDelayBetweenCompanies ==
    \E i \in 1..Len(b_trace) :
        /\ i < Len(b_trace)
        /\ b_trace[i].ev = "company" /\ b_trace[i].outcome = "no_cik"
        /\ b_trace[i + 1].ev = "company"

-----------------------------------------------------------------------------
(* Task Assembler: the selection of the A and B rows *)

\* the manifest record that slot 1 of a row carries
Slot1Record(trow) ==
    [Company |-> trow.Company_1, Ticker |-> trow.Ticker_1, Sector |-> trow.Sector_1,
     Form |-> trow.Form_1, Period |-> trow.Period_1, FilingDate |-> trow.FilingDate_1,
     Accession |-> trow.Accession_1, OpenAsHTMLURL |-> trow.OpenAsHTMLURL_1]

\* x stands strictly before y in (Sector ascending, Company ascending,
\* FilingDate descending)
StrictlyBefore(x, y) ==
    \/ StrRank(x.Sector) < StrRank(y.Sector)
    \/ /\ x.Sector = y.Sector
       /\ \/ StrRank(x.Company) < StrRank(y.Company)
          \/ /\ x.Company = y.Company
             /\ DateKey(x.FilingDate) > DateKey(y.FilingDate)

InOrder(frame) ==
    \A i, j \in 1..Len(frame) : i < j => ~StrictlyBefore(frame[j], frame[i])

Occurrences(frame, r) == Cardinality({i \in 1..Len(frame) : frame[i] = r})

SameRows(f, g) ==
    /\ Len(f) = Len(g)
    /\ \A r \in Range(f) \cup Range(g) : Occurrences(f, r) = Occurrences(g, r)

\* C13: with n manifest rows, the A rows are the first min(aCount, n) rows of
\* the manifest in (Sector ascending, Company ascending, FilingDate
\* descending) order, in that order, and the B rows are the next
\* min(bCount, n - min(aCount, n)) rows of that order; the two take their
\* records from disjoint places of it.
C13_ABRowsAreSortedPrefix ==
    Written =>
        LET sorted == SortAB(ab)
            n == Len(ab)
            na == Min(a_count, n)
            nb == Min(b_count, n - na)
            rowsA == RowsOf("A")
            rowsB == RowsOf("B")
        IN /\ SameRows(sorted, ab)
           /\ InOrder(sorted)
           /\ Len(rowsA) = na
           /\ Len(rowsB) = nb
           /\ \A i \in 1..na : Slot1Record(rowsA[i]) = sorted[i]
           /\ \A i \in 1..nb : Slot1Record(rowsB[i]) = sorted[na + i]
           /\ na + nb <= n

\* a manifest that is not in order, of which aCount takes two rows and bCount
\* asks for more than the one that is left
C13_Witness ==
    /\ Written
    /\ Len(ab) = 3
    /\ ~InOrder(ab)
    /\ a_count = 2 /\ b_count = 2
    /\ Len(RowsOf("A")) = 2
    /\ Len(RowsOf("B")) = 1

-----------------------------------------------------------------------------
(* Task Assembler: the use of the manifest records by the C (Peer) rows *)

\* the manifest record that slot 2 of a row carries
Slot2Record(trow) ==
    [Company |-> trow.Company_2, Ticker |-> trow.Ticker_2, Sector |-> trow.Sector_2,
     Form |-> trow.Form_2, Period |-> trow.Period_2, FilingDate |-> trow.FilingDate_2,
     Accession |-> trow.Accession_2, OpenAsHTMLURL |-> trow.OpenAsHTMLURL_2]

\* the slots of the C (Peer) rows that carry the record r
PeerUses(r) ==
    LET rowsPeer == RowsOf("C (Peer)")
    IN Cardinality({j \in 1..Len(rowsPeer) : Slot1Record(rowsPeer[j]) = r})
       + Cardinality({j \in 1..Len(rowsPeer) : Slot2Record(rowsPeer[j]) = r})

\* C14 (as claimed): over Stage 1 and Stage 2 together, a record of the AB
\* manifest is used in at most one C (Peer) row (a record the manifest holds
\* several times, at most that many times), so that no pair is emitted twice.
C14_PeerRecordsUsedOnce ==
    Written => \A r \in Range(ab) : PeerUses(r) <= Occurrences(ab, r)

\* what pick_peers gives instead: no record is used twice by the pairs of
\* one stage, that is more than twice in all
PeerRecordsUsedOncePerStage ==
    Written => \A r \in Range(ab) : PeerUses(r) <= 2 * Occurrences(ab, r)

PairEmittedTwice ==
    /\ Written
    /\ \E i, j \in 1..Len(RowsOf("C (Peer)")) :
          /\ i < j
          /\ Slot1Record(RowsOf("C (Peer)")[i]) = Slot1Record(RowsOf("C (Peer)")[j])
          /\ Slot2Record(RowsOf("C (Peer)")[i]) = Slot2Record(RowsOf("C (Peer)")[j])
          /\ Occurrences(ab, Slot1Record(RowsOf("C (Peer)")[i])) = 1
          /\ Occurrences(ab, Slot2Record(RowsOf("C (Peer)")[i])) = 1

====
